---------------------------- MODULE Spec2Model ----------------------------
(***************************************************************************)
(* path_helper (src/path_helper.c): builds the value of PATH / MANPATH     *)
(* from a defaults file, the files of a fragment directory and the value   *)
(* the variable already has in the environment.                            *)
(*                                                                         *)
(* C strings are sequences of character codes (ASCII); a char buffer that  *)
(* holds "ab" is <<97, 98>>.  The terminating NUL is not stored: the       *)
(* length of the sequence is strlen.                                       *)
(***************************************************************************)
EXTENDS Integers, Sequences, FiniteSets, TLC

VARIABLES
    pc,         \* position of the running routine
    caller,     \* who runs: "main", or the harness of one routine
    oom,        \* TRUE when calloc and reallocf may return NULL
    style,      \* main: STYLE_CSH or STYLE_SH
    environ,    \* the process environment: variable name -> value or NULL
    building,   \* construct_path: env_var
    fts,        \* the open FTS stream: the tree and the traversal's position
    files,      \* construct_path: struct strlist_s files (files.strs[1..n])
    i,          \* construct_path: the loop index over files
    result,     \* construct_path: char* result
    str,        \* construct_path: the rest of the environment value
    path,       \* main: char* path
    manpath,    \* main: char* manpath
    out,        \* standard output: the statements printed
    err,        \* standard error: the messages printed
    status,     \* exit status of the process (NoStatus while it runs)
    line,       \* the last raw line handed to read_segment
    segment,    \* the last segment handed to append_path_segment
    prev,       \* *path before the last append_path_segment call
    ret,        \* return value of the last append_path_segment call
    calls,      \* number of calls made by the call harness
    offered,    \* history: the de-duplicated segments offered to result
    opened,     \* history: the file names handed to fopen, in order
    failed      \* history: an allocation was refused

vars == << pc, caller, oom, style, environ, building, fts, files, i, result,
           str, path, manpath, out, err, status, line, segment, prev, ret,
           calls, offered, opened, failed >>

---------------------------------------------------------------------------
(* Characters the code names.                                              *)
NL == 10
DQUOTE == 34
DOLLAR == 36
SQUOTE == 39
SLASH == 47
COLON == 58
BACKSLASH == 92

\* The null pointer: no character has a negative code.
NULL == << -1 >>

\* The value of an expression that was not evaluated yet.
None == << -2 >>

---------------------------------------------------------------------------
(* Bounds of the model.                                                    *)
MaxLineLen == 4
MaxAppends == 4

\* Every sequence over S of length at most n.
BoundedSeq(S, n) == UNION { [1..k -> S] : k \in 0..n }

---------------------------------------------------------------------------
(* strstr(hay + from - 1, needle): the first index >= from where needle    *)
(* occurs in hay, 0 (no match) when there is none.  needle is non-empty.   *)
OccursAt(hay, needle, at) ==
    /\ at >= 1
    /\ at + Len(needle) - 1 <= Len(hay)
    /\ \A k \in 1..Len(needle) : hay[at + k - 1] = needle[k]

strstr(hay, from, needle) ==
    LET hits == { at \in from..Len(hay) : OccursAt(hay, needle, at) }
    IN  IF hits = {} THEN 0
        ELSE CHOOSE at \in hits : \A other \in hits : at <= other

\* hay[at] as C reads it: the terminator 0 one past the end.
CharAt(hay, at) == IF at \in 1..Len(hay) THEN hay[at] ELSE 0

\* A mutation of the duplicate scan: only the first occurrence is tested.
MatchLoopFirstOnly(p, seg, match) ==
    /\ match # 0
    /\ (match = 1 \/ p[match - 1] = COLON)
    /\ (CharAt(p, match + Len(seg)) = COLON \/ CharAt(p, match + Len(seg)) = 0)

(* The while loop of append_path_segment: TRUE when some occurrence of seg *)
(* in p is a whole field, (^|:)segment(:|$).                               *)
RECURSIVE MatchLoop(_, _, _)
MatchLoop(p, seg, match) ==
    IF match = 0 THEN FALSE
    ELSE IF /\ (match = 1 \/ p[match - 1] = COLON)
            /\ (CharAt(p, match + Len(seg)) = COLON
                \/ CharAt(p, match + Len(seg)) = 0)
         THEN TRUE
         ELSE MatchLoop(p, seg, strstr(p, match + 1, seg))

(* append_path_segment(&p, seg): the return value and the new *p.          *)
(* alloc is the outcome of reallocf: FALSE when it returns NULL, and then  *)
(* the old buffer is freed and *p is NULL.                                 *)
append_path_segment(p, seg, alloc) ==
    IF p = NULL \/ seg = NULL THEN [ret |-> -1, path |-> p]
    ELSE IF Len(seg) = 0 THEN [ret |-> 0, path |-> p]
    ELSE IF MatchLoop(p, seg, strstr(p, 1, seg)) THEN [ret |-> 0, path |-> p]
    ELSE IF ~alloc THEN [ret |-> -1, path |-> NULL]
    ELSE [ret |-> 0,
          path |-> (IF Len(p) > 0 THEN p \o << COLON >> ELSE p) \o seg]

---------------------------------------------------------------------------
\* The characters read_segment escapes.
IsEscaped(c) == c = DQUOTE \/ c = SQUOTE \/ c = DOLLAR

\* A mutation of the copy loop: the dollar sign is copied unescaped.
RECURSIVE CopyLoopNoDollar(_, _, _, _)
CopyLoopNoDollar(ln, len, at, seg) ==
    IF at > len THEN seg
    ELSE IF ln[at] = DQUOTE \/ ln[at] = SQUOTE
         THEN CopyLoopNoDollar(ln, len, at + 1, seg \o << BACKSLASH, ln[at] >>)
         ELSE IF ln[at] = NL THEN seg
              ELSE CopyLoopNoDollar(ln, len, at + 1, Append(seg, ln[at]))

(* The second loop of read_segment: seg is segment[0..j-1], at is i + 1.   *)
(* The buffer is calloc'ed, so what follows the copied characters is NUL.  *)
RECURSIVE CopyLoop(_, _, _, _)
CopyLoop(ln, len, at, seg) ==
    IF at > len THEN seg
    ELSE IF IsEscaped(ln[at])
         THEN CopyLoop(ln, len, at + 1, seg \o << BACKSLASH, ln[at] >>)
         ELSE IF ln[at] = NL THEN seg
              ELSE CopyLoop(ln, len, at + 1, Append(seg, ln[at]))

(* read_segment(line, len); alloc is the outcome of calloc.                *)
read_segment(ln, len, alloc) ==
    IF ~alloc THEN NULL ELSE CopyLoop(ln, len, 1, << >>)


---------------------------------------------------------------------------
(* Input sets of the two call harnesses.                                   *)

\* Raw lines over: a NL " $ ' \ :
LineAlphabet == { 97, NL, DQUOTE, DOLLAR, SQUOTE, BACKSLASH, COLON }

\* Lines a file can hand to append_path_segment once sanitized:
\* "bin\n", "sbin\n", "\n", "b:b\n", "$\n", "in" (a last line without newline)
AccLines ==
    { << 98, 105, 110, NL >>, << 115, 98, 105, 110, NL >>, << NL >>,
      << 98, COLON, 98, NL >>, << DOLLAR, NL >>, << 105, 110 >> }

\* Pieces of an environment value, which hold no ':': "bin", "$", "n", ""
AccEnvPieces == { << 98, 105, 110 >>, << DOLLAR >>, << 110 >>, << >> }

AccSegments ==
    { read_segment(l, Len(l), TRUE) : l \in AccLines } \cup AccEnvPieces

---------------------------------------------------------------------------
(* The parts of the state a harness leaves alone.                          *)
\* The exit status of a process that has not ended.
NoStatus == 0 - 1

\* No FTS stream is open.
NoFts == [open |-> FALSE]

IdleBuild ==
    /\ oom = FALSE
    /\ style = "unset"
    /\ environ = << >>
    /\ building = "none"
    /\ fts = NoFts
    /\ files = << >>
    /\ i = 0
    /\ str = NULL
    /\ path = None
    /\ manpath = None
    /\ out = << >>
    /\ err = << >>
    /\ status = NoStatus
    /\ offered = << >>
    /\ opened = << >>
    /\ failed = FALSE

buildVars == << oom, style, environ, building, fts, files, i, str, path,
                manpath, out, err, status, offered, opened, failed >>

---------------------------------------------------------------------------
(* Harness of read_segment: one call on a line of the input set.           *)
InitSan ==
    /\ pc = "san_call"
    /\ caller = "harness"
    /\ line \in BoundedSeq(LineAlphabet, MaxLineLen)
    /\ segment = None
    /\ result = None
    /\ prev = None
    /\ ret = 0
    /\ calls = 0
    /\ IdleBuild

SanCall ==
    /\ pc = "san_call"
    /\ segment' = read_segment(line, Len(line), TRUE)
    /\ pc' = "san_done"
    /\ UNCHANGED << caller, line, result, prev, ret, calls >>
    /\ UNCHANGED buildVars

NextSan == SanCall

SpecSan == InitSan /\ [][NextSan]_vars

---------------------------------------------------------------------------
(* Harness of append_path_segment: calls on a path that starts empty.      *)
InitAcc ==
    /\ pc = "acc_call"
    /\ caller = "harness"
    /\ line = None
    /\ segment = None
    /\ result = << >>
    /\ prev = None
    /\ ret = 0
    /\ calls = 0
    /\ IdleBuild

AccCall ==
    /\ pc = "acc_call"
    /\ calls < MaxAppends
    /\ \E seg \in AccSegments :
          LET r == append_path_segment(result, seg, TRUE)
          IN  /\ segment' = seg
              /\ prev' = result
              /\ result' = r.path
              /\ ret' = r.ret
    /\ calls' = calls + 1
    /\ UNCHANGED << pc, caller, line >>
    /\ UNCHANGED buildVars

NextAcc == AccCall

SpecAcc == InitAcc /\ [][NextAcc]_vars

---------------------------------------------------------------------------
(* The fragment directory as fts(3) walks it.  A node is the sequence of   *)
(* names that leads to it from the root; a tree maps its nodes to the kind *)
(* of entry ("dir", "file", "symlink").  The stream is opened with         *)
(* FTS_PHYSICAL (a symbolic link is reported, not followed) and without a  *)
(* comparison function: the order of a directory's entries is whatever the *)
(* directory gives.                                                        *)
Root == << >>

Parent(n) == SubSeq(n, 1, Len(n) - 1)

Children(t, d) == { n \in DOMAIN t : Len(n) = Len(d) + 1 /\ Parent(n) = d }

fts_info(t, n) ==
    CASE t[n] = "dir" -> "FTS_D"
      [] t[n] = "file" -> "FTS_F"
      [] t[n] = "symlink" -> "FTS_SL"

\* ent->fts_level
fts_level(n) == Len(n)

\* ent->fts_accpath: the stream changes into the directories it walks, so
\* an entry below the root is reached by its name.
fts_accpath(dir_path, n) == IF n = Root THEN dir_path ELSE n[Len(n)]

fts_open(t) ==
    [open |-> TRUE, tree |-> t, started |-> FALSE, cur |-> Root,
     info |-> "FTS_INIT", skip |-> FALSE, seen |-> {}]

\* fts_read returned NULL: the walk is over.
EndOfWalk == [node |-> Root, info |-> "END"]

\* What can follow an entry n that has no (more) descendants to visit.
FtsAfter(f, n) ==
    IF n = Root THEN { EndOfWalk }
    ELSE LET todo == Children(f.tree, Parent(n)) \ f.seen
         IN  IF todo # {}
             THEN { [node |-> c, info |-> fts_info(f.tree, c)] : c \in todo }
             ELSE { [node |-> Parent(n), info |-> "FTS_DP"] }

(* fts_read(f): the entries the next call can return.  A directory is      *)
(* returned before its entries (FTS_D) and after them (FTS_DP); FTS_SKIP   *)
(* set on it in pre-order leaves its entries out.                          *)
fts_read(f) ==
    IF ~f.started THEN { [node |-> Root, info |-> fts_info(f.tree, Root)] }
    ELSE IF f.info = "FTS_D"
         THEN LET todo == Children(f.tree, f.cur) \ f.seen
              IN  IF f.skip \/ todo = {}
                  THEN { [node |-> f.cur, info |-> "FTS_DP"] }
                  ELSE { [node |-> c, info |-> fts_info(f.tree, c)] :
                           c \in todo }
         ELSE FtsAfter(f, f.cur)

\* A mutation of the loop body: entries are skipped from the second level.
WantsSkipDeeper(info, level) == info # "FTS_F" /\ level >= 2

\* The loop body of construct_path: fts_set(fts, ent, FTS_SKIP) is called.
WantsSkip(info, level) == info # "FTS_F" /\ level >= 1

\* The loop body of construct_path: the entry is appended to files.
IsCollected(info) == info = "FTS_F"

---------------------------------------------------------------------------
(* struct strlist_s: the strings strs[0..n-1] as a sequence.  The array    *)
(* starts with room for 100 pointers and doubles when it is full.          *)
strlist_init == << >>

strlist_append(d, s) == Append(d, s)

tolower(c) == IF c \in 65..90 THEN c + 32 ELSE c

\* strcmp(a, b): the difference at the first character that differs.
RECURSIVE strcmp_from(_, _, _)
strcmp_from(a, b, k) ==
    IF CharAt(a, k) # CharAt(b, k) THEN CharAt(a, k) - CharAt(b, k)
    ELSE IF CharAt(a, k) = 0 THEN 0
         ELSE strcmp_from(a, b, k + 1)

\* strcasecmp(a, b): the same over the lower-cased characters.
RECURSIVE strcasecmp_from(_, _, _)
strcasecmp_from(a, b, k) ==
    IF tolower(CharAt(a, k)) # tolower(CharAt(b, k))
    THEN tolower(CharAt(a, k)) - tolower(CharAt(b, k))
    ELSE IF CharAt(a, k) = 0 THEN 0
         ELSE strcasecmp_from(a, b, k + 1)

\* A mutation of the comparison: the case of the letters counts.
strlist_orderfn_cased(a, b) == strcmp_from(a, b, 1)

strlist_orderfn(a, b) == strcasecmp_from(a, b, 1)

\* The rearrangements of a sequence.
Rearrangements(d) ==
    { [k \in 1..Len(d) |-> d[p[k]]] :
        p \in { q \in [1..Len(d) -> 1..Len(d)] :
                  \A m, n \in 1..Len(d) : m # n => q[m] # q[n] } }

(* strlist_sort(d): qsort leaves the strings in an order the comparison    *)
(* accepts; strings that compare equal end in either order.                *)
strlist_sort(d) ==
    { s \in Rearrangements(d) :
        \A k \in 1..(Len(d) - 1) : strlist_orderfn(s[k], s[k + 1]) <= 0 }

---------------------------------------------------------------------------
(* Bounds of the inputs of a build.                                        *)
MaxLines == 2
MaxEntries == 3

(* The inputs of construct_path, by caller.  "main" is the program;        *)
(* "sweep" and "order" are two harnesses that call construct_path once:    *)
(* sweep draws the lines of the files from a wide set, order draws the     *)
(* fragment directory from a wide set and gives every fragment file one    *)
(* line that names it (as src/check.sh does).                              *)

\* "a\n", "b" (a last line without newline), "\n", "$a\n", "b:\n"
SweepLines ==
    { << 97, NL >>, << 98 >>, << NL >>, << DOLLAR, 97, NL >>,
      << 98, COLON, NL >> }

\* "a\n", "b\n"
MainLines == { << 97, NL >>, << 98, NL >> }

\* Names of fragment files: "10-x", "2-y", "20-z", "B", "a", "A"
OrderNames ==
    { << 49, 48, 45, 120 >>, << 50, 45, 121 >>, << 50, 48, 45, 122 >>,
      << 66 >>, << 97 >>, << 65 >> }

SweepNames == { << 66 >>, << 97 >> }

MainNames == { << 97 >> }

\* The name of the entry a subdirectory of the fragment directory holds: "c"
KidName == << 99 >>

\* The files the caller's file system can hold: sequences of lines, each
\* but the last ended by its newline.
LinesSeqs(L) ==
    { c \in BoundedSeq(L, MaxLines) :
        \A k \in 1..(Len(c) - 1) : c[k][Len(c[k])] = NL }

Contents(c, prefix, fname) ==
    CASE c = "sweep" -> LinesSeqs(SweepLines)
      [] c = "order" /\ prefix = << >> ->
            { << >>, << << 50, 45, 121, NL >> >> }
      [] c = "order" /\ prefix # << >> -> { << fname \o << NL >> >> }
      [] OTHER -> LinesSeqs(MainLines)

TreeOf(S, kind, kid) ==
    LET nodes == {Root} \cup { << n >> : n \in S }
                 \cup { << n, KidName >> :
                          n \in { m \in S : kind[m] = "dir" /\ kid[m] # "none" } }
    IN  [nd \in nodes |->
           IF nd = Root THEN "dir"
           ELSE IF Len(nd) = 1 THEN kind[nd[1]] ELSE kid[nd[1]]]

\* Every tree with at most MaxEntries entries in the root, named from
\* names; a subdirectory is empty or holds one entry.
TreesOver(names, kinds, kids) ==
    UNION { UNION { { TreeOf(S, kind, kid) : kid \in [S -> kids] } :
                    kind \in [S -> kinds] } :
            S \in { T \in SUBSET names : Cardinality(T) <= MaxEntries } }

Trees(c) ==
    CASE c = "order" ->
            TreesOver(OrderNames, {"file", "dir", "symlink"},
                      {"none", "file", "dir"})
      [] c = "sweep" -> TreesOver(SweepNames, {"file", "dir"}, {"file"})
      [] OTHER -> TreesOver(MainNames, {"file", "symlink"}, {"none"})

\* Values of the variable in the environment: unset, "", "a:$a", "b::a"
SweepEnvValues ==
    { NULL, << >>, << 97, COLON, DOLLAR, 97 >>, << 98, COLON, COLON, 97 >> }

---------------------------------------------------------------------------
(* The arguments of main's two construct_path calls.                       *)
\* "/etc/paths", "/etc/manpaths"
DefaultsPath(var) ==
    IF var = "PATH" THEN << 47, 101, 116, 99, 47, 112, 97, 116, 104, 115 >>
    ELSE << 47, 101, 116, 99, 47, 109, 97, 110, 112, 97, 116, 104, 115 >>

\* "/etc/paths.d", "/etc/manpaths.d"
DirPath(var) == DefaultsPath(var) \o << 46, 100 >>

getenv(name) == IF name \in DOMAIN environ THEN environ[name] ELSE NULL

\* perror(s) writes s and the error's text to standard error.
perror(s) == [what |-> "perror", arg |-> s]

\* The outcomes an allocation can have.
AllocOutcomes == IF oom THEN BOOLEAN ELSE { TRUE }

\* History: seg joins the segments offered unless it is empty or was
\* offered before.
Offer(o, seg) ==
    IF seg = NULL \/ seg = << >> \/ (\E k \in 1..Len(o) : o[k] = seg)
    THEN o ELSE Append(o, seg)

(* The for (;;) loop of append_path_file over the lines fgetln returns.    *)
(* allocs[2k-1] is the outcome of read_segment's calloc for line k and     *)
(* allocs[2k] that of append_path_segment's reallocf; the return value of  *)
(* append_path_segment is not looked at.                                   *)
RECURSIVE ReadLines(_, _, _, _)
ReadLines(st, content, k, allocs) ==
    IF k > Len(content) THEN st
    ELSE LET seg == read_segment(content[k], Len(content[k]),
                                 allocs[2 * k - 1])
             r == append_path_segment(st.path, seg, allocs[2 * k])
         IN  ReadLines([path |-> r.path,
                        offered |-> Offer(st.offered, seg),
                        failed |-> \/ st.failed
                                   \/ seg = NULL
                                   \/ (st.path # NULL /\ r.path = NULL)],
                       content, k + 1, allocs)

\* A mutation of the failed fopen: nothing is written to standard error.
fopen_failed_silent(res, errs, buf) == [result |-> res, err |-> errs]

\* append_path_file when fopen returns NULL: perror(buf), and return.
fopen_failed(res, errs, buf) ==
    [result |-> res, err |-> Append(errs, perror(buf))]

(* append_path_file(&result, prefix, fname).                               *)
AppendPathFile(prefix, fname) ==
    LET buf == prefix \o << SLASH >> \o fname
    IN  \/ /\ result' = fopen_failed(result, err, buf).result
           /\ err' = fopen_failed(result, err, buf).err
           /\ opened' = Append(opened, [var |-> building, prefix |-> prefix,
                                        fname |-> fname, ok |-> FALSE])
           /\ UNCHANGED << offered, failed >>
        \/ /\ \E content \in Contents(caller, prefix, fname) :
                \E allocs \in [1..(2 * Len(content)) -> AllocOutcomes] :
                   LET st == ReadLines([path |-> result, offered |-> offered,
                                        failed |-> failed],
                                       content, 1, allocs)
                   IN  /\ result' = st.path
                       /\ offered' = st.offered
                       /\ failed' = st.failed
           /\ opened' = Append(opened, [var |-> building, prefix |-> prefix,
                                        fname |-> fname, ok |-> TRUE])
           /\ UNCHANGED err

---------------------------------------------------------------------------
(* construct_path(env_var, defaults_path, dir_path).                       *)

\* The variables of the harnesses of read_segment and append_path_segment.
callVars == << line, segment, prev, ret, calls >>

\* construct_path returns value: its locals are gone, and the caller goes
\* on (main, lines 238-245: MANPATH is built only when it is set).
ReturnTo(value) ==
    /\ fts' = NoFts
    /\ files' = << >>
    /\ i' = 0
    /\ str' = NULL
    /\ result' = None
    /\ IF caller # "main"
       THEN /\ pc' = "done"
            /\ path' = value
            /\ UNCHANGED << manpath, building >>
       ELSE IF building = "PATH"
            THEN /\ path' = value
                 /\ UNCHANGED manpath
                 /\ IF getenv("MANPATH") # NULL
                    THEN building' = "MANPATH" /\ pc' = "fts_open"
                    ELSE building' = building /\ pc' = "print"
            ELSE /\ manpath' = value
                 /\ pc' = "print"
                 /\ UNCHANGED << path, building >>

\* result = calloc(1); fts_open fails: perror(dir_path), return NULL.
FtsOpenFails ==
    /\ pc = "fts_open"
    /\ err' = Append(err, perror(DirPath(building)))
    /\ ReturnTo(NULL)
    /\ offered' = << >>
    /\ UNCHANGED << caller, oom, style, environ, out, status, opened, failed >>
    /\ UNCHANGED callVars

\* result = calloc(1); fts_open succeeds; strlist_init(&files).
FtsOpen ==
    /\ pc = "fts_open"
    /\ \E t \in Trees(caller) : fts' = fts_open(t)
    /\ result' = << >>
    /\ files' = strlist_init
    /\ offered' = << >>
    /\ pc' = "fts_read"
    /\ UNCHANGED << caller, oom, style, environ, building, i, str, path,
                    manpath, out, err, status, opened, failed >>
    /\ UNCHANGED callVars

\* One turn of the while loop over fts_read, or its end.
FtsRead ==
    /\ pc = "fts_read"
    /\ \E ent \in fts_read(fts) :
          IF ent.info = "END"
          THEN /\ pc' = "sort"
               /\ UNCHANGED << fts, files >>
          ELSE /\ fts' = [fts EXCEPT
                            !.started = TRUE,
                            !.cur = ent.node,
                            !.info = ent.info,
                            !.skip = WantsSkip(ent.info, fts_level(ent.node)),
                            !.seen = @ \cup { ent.node }]
               /\ files' = IF IsCollected(ent.info)
                           THEN strlist_append(files,
                                    fts_accpath(DirPath(building), ent.node))
                           ELSE files
               /\ pc' = pc
    /\ UNCHANGED << caller, oom, style, environ, building, i, result, str,
                    path, manpath, out, err, status, offered, opened, failed >>
    /\ UNCHANGED callVars

\* fts_close(fts); strlist_sort(&files).
Sort ==
    /\ pc = "sort"
    /\ fts' = [fts EXCEPT !.open = FALSE]
    /\ files' \in strlist_sort(files)
    /\ pc' = "defaults"
    /\ UNCHANGED << caller, oom, style, environ, building, i, result, str,
                    path, manpath, out, err, status, offered, opened, failed >>
    /\ UNCHANGED callVars

\* append_path_file(&result, "", defaults_path); i = 0 (here: 1).
AppendDefaults ==
    /\ pc = "defaults"
    /\ AppendPathFile(<< >>, DefaultsPath(building))
    /\ i' = 1
    /\ pc' = "fragments"
    /\ UNCHANGED << caller, oom, style, environ, building, fts, files, str,
                    path, manpath, out, status >>
    /\ UNCHANGED callVars

\* One turn of the for loop over files.
AppendFragment ==
    /\ pc = "fragments"
    /\ i <= Len(files)
    /\ AppendPathFile(DirPath(building), files[i])
    /\ i' = i + 1
    /\ UNCHANGED << pc, caller, oom, style, environ, building, fts, files,
                    str, path, manpath, out, status >>
    /\ UNCHANGED callVars

\* The for loop ends; str = getenv(env_var), copied when it is set.
GetEnv ==
    /\ pc = "fragments"
    /\ i > Len(files)
    /\ str' = getenv(building)
    /\ pc' = "merge"
    /\ UNCHANGED << caller, oom, style, environ, building, fts, files, i,
                    result, path, manpath, out, err, status, offered, opened,
                    failed >>
    /\ UNCHANGED callVars

\* strchr(s, ':'): the index of the first ':' of s, 0 when it has none.
strchr_colon(s) ==
    LET colons == { k \in 1..Len(s) : s[k] = COLON }
    IN  IF colons = {} THEN 0
        ELSE CHOOSE k \in colons : \A m \in colons : k <= m

\* One turn of the while (str) loop: the piece up to the next ':' is
\* appended, and str moves behind that ':'.
MergePiece ==
    /\ pc = "merge"
    /\ str # NULL
    /\ LET sep == strchr_colon(str)
           piece == IF sep # 0 THEN SubSeq(str, 1, sep - 1) ELSE str
       IN  /\ \E alloc \in AllocOutcomes :
                LET r == append_path_segment(result, piece, alloc)
                IN  /\ result' = r.path
                    /\ failed' = (failed \/ (result # NULL /\ r.path = NULL))
           /\ offered' = Offer(offered, piece)
           /\ str' = IF sep # 0 THEN SubSeq(str, sep + 1, Len(str)) ELSE NULL
    /\ UNCHANGED << pc, caller, oom, style, environ, building, fts, files, i,
                    path, manpath, out, err, status, opened >>
    /\ UNCHANGED callVars

\* The while (str) loop ends; return result.
Return ==
    /\ pc = "merge"
    /\ str = NULL
    /\ ReturnTo(result)
    /\ UNCHANGED << caller, oom, style, environ, out, err, status, offered,
                    opened, failed >>
    /\ UNCHANGED callVars

ConstructPath ==
    \/ FtsOpenFails
    \/ FtsOpen
    \/ FtsRead
    \/ Sort
    \/ AppendDefaults
    \/ AppendFragment
    \/ GetEnv
    \/ MergePiece
    \/ Return

---------------------------------------------------------------------------
(* The harnesses of construct_path: one call for PATH.                     *)
InitHarness(c, values) ==
    /\ pc = "fts_open"
    /\ caller = c
    /\ oom = FALSE
    /\ style = "unset"
    /\ environ \in [{"PATH"} -> values]
    /\ building = "PATH"
    /\ fts = NoFts
    /\ files = << >>
    /\ i = 0
    /\ result = None
    /\ str = NULL
    /\ path = None
    /\ manpath = None
    /\ out = << >>
    /\ err = << >>
    /\ status = NoStatus
    /\ line = None
    /\ segment = None
    /\ prev = None
    /\ ret = 0
    /\ calls = 0
    /\ offered = << >>
    /\ opened = << >>
    /\ failed = FALSE

InitSweep == InitHarness("sweep", SweepEnvValues)

\* The variable is unset, or "a"
InitOrder == InitHarness("order", { NULL, << 97 >> })

SpecSweep == InitSweep /\ [][ConstructPath]_vars

SpecOrder == InitOrder /\ [][ConstructPath]_vars

---------------------------------------------------------------------------
(* main(argc, argv).                                                       *)

\* The arguments after argv[0]: none, "-c", "-s", "-c" "-s"
Argvs ==
    { << >>, << << 45, 99 >> >>, << << 45, 115 >> >>,
      << << 45, 99 >>, << 45, 115 >> >> }

\* The output style main settles on: csh when $SHELL holds "csh", and the
\* flag -c or -s overrides it.
StyleOf(shell, argv) ==
    LET fromShell == IF shell # NULL /\ strstr(shell, 1, << 99, 115, 104 >>) # 0
                     THEN "STYLE_CSH" ELSE "STYLE_SH"
    IN  IF Len(argv) = 1 /\ argv[1] = << 45, 115 >> THEN "STYLE_SH"
        ELSE IF Len(argv) = 1 /\ argv[1] = << 45, 99 >> THEN "STYLE_CSH"
             ELSE fromShell

\* argc > 2: usage() writes the usage line and calls exit(1).
Usage ==
    /\ pc = "main"
    /\ \E argv \in Argvs : Len(argv) + 1 > 2
    /\ err' = Append(err, [what |-> "usage", arg |-> << >>])
    /\ status' = 1
    /\ pc' = "exit"
    /\ UNCHANGED << caller, oom, style, environ, building, fts, files, i,
                    result, str, path, manpath, out, offered, opened, failed >>
    /\ UNCHANGED callVars

\* The style is chosen and construct_path("PATH", ...) is called.
MainStart ==
    /\ pc = "main"
    /\ \E argv \in Argvs :
          /\ Len(argv) + 1 <= 2
          /\ style' = StyleOf(getenv("SHELL"), argv)
    /\ building' = "PATH"
    /\ pc' = "fts_open"
    /\ UNCHANGED << caller, oom, environ, fts, files, i, result, str, path,
                    manpath, out, err, status, offered, opened, failed >>
    /\ UNCHANGED callVars

\* One statement of the output: setenv VAR "value"; or
\* VAR="value"; export VAR;
Statement(var, value) ==
    [stmt |-> IF style = "STYLE_CSH" THEN "setenv" ELSE "export",
     var |-> var, value |-> value]

\* What printf("%s") writes for a null pointer when it writes anything:
\* "(null)"
NullText == << 40, 110, 117, 108, 108, 41 >>

(* printf of a statement.  Passing a null pointer for %s is undefined:     *)
(* the C library writes "(null)" or the process is killed by a fault.      *)
printf_statement(o, var, value) ==
    IF value = NULL
    THEN { [out |-> Append(o, Statement(var, NullText)), killed |-> FALSE],
           [out |-> o, killed |-> TRUE] }
    ELSE { [out |-> Append(o, Statement(var, value)), killed |-> FALSE] }

\* The statements are printed and main returns 0; a process killed by the
\* fault ends with the status of SIGSEGV.
PrintStatements ==
    /\ pc = "print"
    /\ \E p \in printf_statement(out, "PATH", path) :
          IF p.killed
          THEN out' = p.out /\ status' = 128 + 11
          ELSE IF getenv("MANPATH") # NULL
               THEN \E m \in printf_statement(p.out, "MANPATH", manpath) :
                       /\ out' = m.out
                       /\ status' = IF m.killed THEN 128 + 11 ELSE 0
               ELSE out' = p.out /\ status' = 0
    /\ pc' = "exit"
    /\ UNCHANGED << caller, oom, style, environ, building, fts, files, i,
                    result, str, path, manpath, err, offered, opened, failed >>
    /\ UNCHANGED callVars

Next ==
    \/ Usage
    \/ MainStart
    \/ ConstructPath
    \/ PrintStatements

\* PATH is unset or "b", MANPATH is unset or "m", SHELL is unset or
\* "/bin/csh".
InitMain(heap) ==
    /\ pc = "main"
    /\ caller = "main"
    /\ oom = heap
    /\ style = "unset"
    /\ environ \in
          { [v \in {"PATH", "MANPATH", "SHELL"} |->
               CASE v = "PATH" -> p [] v = "MANPATH" -> m [] v = "SHELL" -> s] :
            p \in { NULL, << 98 >> }, m \in { NULL, << 109 >> },
            s \in { NULL, << 47, 98, 105, 110, 47, 99, 115, 104 >> } }
    /\ building = "none"
    /\ fts = NoFts
    /\ files = << >>
    /\ i = 0
    /\ result = None
    /\ str = NULL
    /\ path = None
    /\ manpath = None
    /\ out = << >>
    /\ err = << >>
    /\ status = NoStatus
    /\ line = None
    /\ segment = None
    /\ prev = None
    /\ ret = 0
    /\ calls = 0
    /\ offered = << >>
    /\ opened = << >>
    /\ failed = FALSE

\* The program when every allocation succeeds.
Init == InitMain(FALSE)

Spec == Init /\ [][Next]_vars

\* The program when read_segment's calloc and append_path_segment's
\* reallocf can return NULL.
InitOOM == InitMain(TRUE)

SpecOOM == InitOOM /\ [][Next]_vars

\* CLAIMS-BELOW
---------------------------------------------------------------------------
(* Vocabulary of the properties.                                           *)

\* The smallest element of a non-empty set of integers.
Min(S) == CHOOSE x \in S : \A y \in S : x <= y

\* The fields of a colon-separated string; the empty string has none.
RECURSIVE SplitFrom(_, _)
SplitFrom(s, from) ==
    LET colons == { k \in from..Len(s) : s[k] = COLON }
    IN  IF colons = {} THEN << SubSeq(s, from, Len(s)) >>
        ELSE << SubSeq(s, from, Min(colons) - 1) >>
             \o SplitFrom(s, Min(colons) + 1)

Fields(s) == IF s = << >> THEN << >> ELSE SplitFrom(s, 1)

\* seg occurs in p as a whole colon-delimited field.
IsField(p, seg) ==
    \E at \in 1..Len(p) :
        /\ OccursAt(p, seg, at)
        /\ (at = 1 \/ p[at - 1] = COLON)
        /\ (at + Len(seg) = Len(p) + 1 \/ CharAt(p, at + Len(seg)) = COLON)

\* The part of a raw line before its first newline.
BeforeNewline(l) ==
    LET nls == { k \in 1..Len(l) : l[k] = NL }
    IN  IF nls = {} THEN l ELSE SubSeq(l, 1, Min(nls) - 1)

\* Where the k-th character of body lands once every escaped character
\* up to it has received its backslash.
Landing(body, k) ==
    k + Cardinality({ m \in 1..k : IsEscaped(body[m]) })

\* seg is body with a backslash put before each quote and dollar, and
\* nothing else added, removed or changed.
IsSanitized(body, seg) ==
    /\ Len(seg) = Landing(body, Len(body))
    /\ \A k \in 1..Len(body) :
          /\ seg[Landing(body, k)] = body[k]
          /\ IsEscaped(body[k]) => seg[Landing(body, k) - 1] = BACKSLASH

---------------------------------------------------------------------------
(* C2: after any sequence of append_path_segment calls from the empty      *)
(* path, with sanitized file lines and ':'-free environment pieces as      *)
(* segments, no field occurs at two positions of the path.                 *)
C2_NoFieldTwice ==
    pc = "acc_call" =>
        \A m, n \in 1..Len(Fields(result)) :
            m # n => Fields(result)[m] # Fields(result)[n]

(* C3: append_path_segment with a non-null path and a non-empty segment    *)
(* leaves the path unchanged exactly when the segment is a whole field of  *)
(* the path; otherwise the new path is the old one, a ':' when the old one *)
(* is non-empty, and the segment.                                          *)
C3_AppendUnlessField ==
    (pc = "acc_call" /\ calls > 0 /\ prev # NULL /\ segment # << >>) =>
        /\ (result = prev) <=> IsField(prev, segment)
        /\ ~IsField(prev, segment) =>
              result = (IF prev = << >> THEN << >> ELSE prev \o << COLON >>)
                       \o segment
        /\ ret = 0

\* "bin" is appended to "sbin" although it is a substring of it, and is
\* found as the second field of "sbin:bin" by a later call.
C3_Witness ==
    /\ pc = "acc_call"
    /\ calls = 3
    /\ segment = << 98, 105, 110 >>
    /\ prev = << 115, 98, 105, 110, COLON, 98, 105, 110 >>
    /\ result = prev

(* C4: read_segment returns the characters of the line before its first    *)
(* newline, in order, each quote and dollar preceded by an inserted        *)
(* backslash, nothing else added, removed or changed.                      *)
C4_ReadSegment ==
    pc = "san_done" => IsSanitized(BeforeNewline(line), segment)

\* The line $a'\n is returned as \$a\' .
C4_Witness ==
    /\ pc = "san_done"
    /\ line = << DOLLAR, 97, SQUOTE, NL >>
    /\ segment = << BACKSLASH, DOLLAR, 97, BACKSLASH, SQUOTE >>

---------------------------------------------------------------------------
(* Vocabulary of the properties of a build.                                *)

\* a comes before b, or is b, in the lexicographic order of the codes.
LexLeq(a, b) ==
    \/ Len(a) <= Len(b) /\ \A k \in 1..Len(a) : a[k] = b[k]
    \/ \E k \in 1..Len(a) :
          /\ k <= Len(b)
          /\ a[k] < b[k]
          /\ \A m \in 1..(k - 1) : a[m] = b[m]

\* s with its upper-case letters A..Z replaced by a..z.
FoldCase(s) ==
    [k \in 1..Len(s) |-> IF s[k] >= 65 /\ s[k] <= 90 THEN s[k] + 32 ELSE s[k]]

\* The names of s are in case-insensitive lexicographic order.
SortedNoCase(s) ==
    \A k \in 1..(Len(s) - 1) : LexLeq(FoldCase(s[k]), FoldCase(s[k + 1]))

\* The names of the regular files directly in the root of tree t.
TopFiles(t) == { n[1] : n \in { m \in DOMAIN t : Len(m) = 1 /\ t[m] = "file" } }

\* The fopen calls made for the fragment files of var.
FragmentsOpened(var) ==
    LET Mine(e) == e.var = var /\ e.prefix # << >> IN SelectSeq(opened, Mine)

\* p followed by seg as a new field.
Joined(p, seg) == (IF p = << >> THEN << >> ELSE p \o << COLON >>) \o seg

\* The directory of var could not be opened: only then is perror called
\* with the directory's path.
DirFailed(var) ==
    \E k \in 1..Len(err) : err[k] = [what |-> "perror", arg |-> DirPath(var)]

\* The pieces of the value var has in the environment.
EnvPieces(var) == IF getenv(var) = NULL THEN << >> ELSE Fields(getenv(var))

\* Some file could not be opened.
SomeFileFailed == \E k \in 1..Len(opened) : ~opened[k].ok

---------------------------------------------------------------------------
(* C1: the value construct_path returns, split on ':', is the sequence of  *)
(* the sanitized lines of the defaults file, of the fragment files in      *)
(* sorted order and of the pieces of the environment value, without the    *)
(* empty entries and without the later occurrences of an entry.            *)
C1_ResultIsInputsOnce ==
    (pc = "done" /\ path # NULL) =>
        /\ Fields(path) = offered
        /\ SortedNoCase([k \in 1..Len(FragmentsOpened("PATH")) |->
                           FragmentsOpened("PATH")[k].fname])

(* C10: a non-empty value returned by construct_path has no empty field:   *)
(* it neither starts nor ends with ':' and holds no "::".                  *)
C10_NoEmptyField ==
    (pc = "done" /\ path # NULL /\ path # << >>) =>
        /\ path[1] # COLON
        /\ path[Len(path)] # COLON
        /\ \A k \in 1..(Len(path) - 1) :
              ~(path[k] = COLON /\ path[k + 1] = COLON)

---------------------------------------------------------------------------
(* C9: the files construct_path collects are exactly the regular files     *)
(* directly in the root: the walk returns no entry of a subdirectory, and  *)
(* neither the root, a symbolic link nor a directory is collected.         *)
C9_OnlyTopLevelFiles ==
    (pc \in {"fts_read", "sort"}) =>
        /\ \A n \in fts.seen : fts_level(n) <= 1
        /\ \A k \in 1..Len(files) :
              /\ files[k] \in TopFiles(fts.tree)
              /\ << files[k] >> \in fts.seen
              /\ \A m \in 1..Len(files) : m # k => files[m] # files[k]
        /\ pc = "sort" => Len(files) = Cardinality(TopFiles(fts.tree))

\* The root holds the directory B with the file c in it, the symbolic link
\* a and the file 2-y: only 2-y is collected.
C9_Witness ==
    /\ pc = "sort"
    /\ DOMAIN fts.tree =
          { Root, << << 66 >> >>, << << 66 >>, KidName >>, << << 97 >> >>,
            << << 50, 45, 121 >> >> }
    /\ fts.tree[<< << 66 >>, KidName >>] = "file"
    /\ fts.tree[<< << 97 >> >>] = "symlink"
    /\ files = << << 50, 45, 121 >> >>

---------------------------------------------------------------------------
(* C5: whatever order the walk reports the entries in, the fragment files  *)
(* are read in case-insensitive lexicographic order of their names, and    *)
(* what a file adds to the path is put behind what is already there.       *)
C5_SortedState ==
    /\ SortedNoCase([k \in 1..Len(FragmentsOpened("PATH")) |->
                       FragmentsOpened("PATH")[k].fname])
    /\ pc \in {"defaults", "fragments", "merge"} =>
          /\ SortedNoCase(files)
          /\ { files[k] : k \in 1..Len(files) } = TopFiles(fts.tree)
          /\ Len(files) = Cardinality(TopFiles(fts.tree))
    /\ pc \in {"fragments", "merge"} =>
          /\ Len(FragmentsOpened("PATH")) = i - 1
          /\ \A k \in 1..(i - 1) : FragmentsOpened("PATH")[k].fname = files[k]
    /\ pc = "merge" => i = Len(files) + 1

\* The step that reads files[i], whose one line is its name.
C5_ReadStep ==
    (pc = "fragments" /\ pc' = "fragments") =>
        /\ i' = i + 1
        /\ files' = files
        /\ opened'[Len(opened')].fname = files[i]
        /\ IF opened'[Len(opened')].ok /\ ~IsField(result, files[i])
           THEN result' = Joined(result, files[i])
           ELSE result' = result

\* C5: the fragment files are read in case-insensitive name order, and
\* their segments enter the path in that order.
C5_ReadInNameOrder == []C5_SortedState /\ [][C5_ReadStep]_vars

\* The files 10-x, 2-y and 20-z end in the path in that order.
C5_Witness ==
    /\ pc = "done"
    /\ path = << 49, 48, 45, 120, COLON, 50, 45, 121, COLON,
                 50, 48, 45, 122 >>
    /\ Len(FragmentsOpened("PATH")) = 3

---------------------------------------------------------------------------
(* C6: when the fragment directory cannot be opened, the failure is        *)
(* reported, the build of that variable ends without a value, and the      *)
(* process ends with a non-zero exit status.                               *)
C6_DirFailureAborts ==
    (pc = "exit" /\ (DirFailed("PATH") \/ DirFailed("MANPATH"))) =>
        /\ DirFailed("PATH") => path = NULL
        /\ DirFailed("MANPATH") => manpath = NULL
        /\ status # 0

(* C7: an allocation refused in read_segment or append_path_segment ends   *)
(* the process with a non-zero exit status and nothing is printed.         *)
C7_AllocFailureAborts ==
    (pc = "exit" /\ failed) => (status # 0 /\ out = << >>)

---------------------------------------------------------------------------
(* C8: a defaults or fragment file that cannot be opened is reported on    *)
(* standard error and adds nothing; the build goes on with the files that  *)
(* remain and with the environment value, the statement of the variable is *)
(* printed and the exit status is 0.                                       *)
C8_State ==
    \* the files that failed are the files reported, in order
    /\ LET Bad(e) == ~e.ok
           FileError(m) == /\ m.what = "perror"
                           /\ m.arg # DirPath("PATH")
                           /\ m.arg # DirPath("MANPATH")
           bad == SelectSeq(opened, Bad)
           told == SelectSeq(err, FileError)
       IN  /\ Len(told) = Len(bad)
           /\ \A k \in 1..Len(bad) :
                 told[k].arg = bad[k].prefix \o << SLASH >> \o bad[k].fname
    \* every file of the list was tried before the environment is merged
    /\ pc = "merge" =>
          /\ Len(FragmentsOpened(building)) = Len(files)
          /\ \A k \in 1..Len(files) :
                FragmentsOpened(building)[k].fname = files[k]
    \* the process ends as it does when every file opens
    /\ (pc = "exit" /\ SomeFileFailed
        /\ ~DirFailed("PATH") /\ ~DirFailed("MANPATH")) =>
          /\ status = 0
          /\ path # NULL
          /\ out[1] = Statement("PATH", path)
          /\ \A k \in 1..Len(EnvPieces("PATH")) :
                EnvPieces("PATH")[k] # << >> =>
                    IsField(path, EnvPieces("PATH")[k])
          /\ getenv("MANPATH") = NULL => Len(out) = 1
          /\ getenv("MANPATH") # NULL =>
                /\ Len(out) = 2
                /\ manpath # NULL
                /\ out[2] = Statement("MANPATH", manpath)
                /\ IsField(manpath, getenv("MANPATH"))

\* The step of a failed fopen: one message more, the path as it was, and
\* the loop over the files is next.
C8_FailedOpenStep ==
    (Len(opened') = Len(opened) + 1 /\ ~opened'[Len(opened')].ok) =>
        /\ result' = result
        /\ offered' = offered
        /\ err' = Append(err, perror(opened'[Len(opened')].prefix
                                     \o << SLASH >>
                                     \o opened'[Len(opened')].fname))
        /\ pc' = "fragments"
        /\ out' = out

\* C8: a file that cannot be opened is reported and skipped, and the
\* program still prints the statement and ends with status 0.
C8_UnopenedFileIsSkipped == []C8_State /\ [][C8_FailedOpenStep]_vars

\* /etc/paths cannot be opened, the fragment a gives "a", PATH is "b":
\* PATH="a:b" is printed and the status is 0.
C8_Witness ==
    /\ pc = "exit"
    /\ status = 0
    /\ getenv("MANPATH") = NULL
    /\ Len(opened) = 2
    /\ ~opened[1].ok
    /\ opened[2].ok
    /\ err = << perror(<< SLASH >> \o DefaultsPath("PATH")) >>
    /\ path = << 97, COLON, 98 >>
    /\ out = << Statement("PATH", path) >>

===========================================================================
